---- MODULE Spec2Model ----
(***************************************************************************)
(* Auction platform backend: the bid submission handler (placeBid), the    *)
(* Bid pre-save hook, the auction lifecycle handlers and the socket.io      *)
(* room handlers, as a state machine over the MongoDB collections.          *)
(* Every `await` of a handler is a point where other requests interleave.   *)
(***************************************************************************)
EXTENDS Integers, Sequences, FiniteSets, TLC

\* ---------------------------------------------------------------- bounds
MaxAmount == 2          \* largest whole bid amount a request carries
MaxBids == 2            \* bid documents the collection may hold
MaxTime == 3            \* last clock value
MaxAdminOps == 2        \* admin notifications (approve / dispute) written
MaxEvents == 3          \* events in the log up to which sockets send messages
MaxEnded == 2           \* auctionEnded messages the sockets send
MaxPayments == 2        \* payment documents the collection may hold
MaxVerified == 2        \* payment_successful notifications written

\* ---------------------------------------------------------------- inputs
Seller == "seller"
Bidders == {"u1", "u2"}
Users == {Seller} \cup Bidders
Procs == {1, 2}         \* concurrent placeBid requests
Sockets == {"k1", "k2"}
None == "none"
StartTime == 1
EndTime == 2
BasePrice == 1

\* req.body.amount as the rational n/d (d = 2 gives the non-integral 3/2)
AmountInputs == {[n |-> k, d |-> 1] : k \in 0..MaxAmount} \cup {[n |-> 3, d |-> 2]}

\* ---------------------------------------------------------------- state
VARIABLES
  auction,        \* the Auction document in the store
  bidDocs,        \* the Bid collection, in insertion order
  notifications,  \* the Notification collection, in insertion order
  emitted,        \* socket.io events sent, in emission order, with recipients
  room,           \* sockets joined to the auction's room
  req,            \* per placeBid request: position and locals
  resp,           \* the response of the latest auction / admin handler call
  now,            \* the clock (new Date())
  payments,       \* the Payment collection, in insertion order
  orderReq        \* per createOrder request: position and user

vars == <<auction, bidDocs, notifications, emitted, room, req, resp, now,
          payments, orderReq>>

Statuses == {"pending", "active", "completed", "cancelled"}

Idle == [pc |-> "idle", user |-> None, amount |-> [n |-> 0, d |-> 1],
         auc |-> [seller |-> None, currentBid |-> 0],
         hookCur |-> 0, highest |-> 0, bid |-> 0, prev |-> None, count |-> 0,
         err |-> "", res |-> [status |-> 0, message |-> ""]]

\* ------------------------------------------------- Bid schema (Bid.js 14-24)
\* Number.isInteger(value)
IsInteger(a) == a.n % a.d = 0

\* min: [1, ...]
AtLeastOne(a) == a.n >= a.d

\* the schema validators of `amount`, run by save() before the pre('save') hooks
AmountValid(a) == AtLeastOne(a) /\ IsInteger(a)

\* the stored Number of a valid amount
Whole(a) == a.n \div a.d

\* Auction has no minAuctionAmount path: `this.amount < undefined` is false
BelowMinAuctionAmount(a, auc) == FALSE

\* Bid.findOne({auction}).sort({amount: -1}).limit(1): highest amount, 0 for null
HighestAmount(docs) ==
  IF docs = <<>> THEN 0
  ELSE CHOOSE m \in {docs[i].amount : i \in 1..Len(docs)} :
         \A i \in 1..Len(docs) : docs[i].amount <= m

\* the messages of the errors Bid.create and Notification.create can throw
ErrMin == "Bid amount must be at least 1"
ErrWhole == "Bid amount must be a whole number"
ErrNotFound == "Auction not found"
ErrNotActive == "Auction is not active"
ErrSeller == "Sellers cannot bid on their own auctions"
ErrMinAuction == "Bid must be at least the minimum auction amount of $undefined"
ErrDocument == "No document found for query"
ErrStore == "notification write failed"

\* error.message.includes('Bid must be higher'): true of none of the above
IncludesBidMustBeHigher(msg) ==
  msg \notin {ErrMin, ErrWhole, ErrNotFound, ErrNotActive, ErrSeller,
              ErrMinAuction, ErrDocument, ErrStore}

\* the response of the catch block (bidController.js 128-140)
CatchResponse(msg) ==
  IF IncludesBidMustBeHigher(msg) THEN [status |-> 400, message |-> msg]
  ELSE [status |-> 500, message |-> "Server error"]

\* what is left of a request when its handler has returned: who asked what,
\* the bid it created (0 for none), the error caught and the response
Finished(r, err, res) ==
  [Idle EXCEPT !.pc = "done", !.user = r.user, !.amount = r.amount,
               !.bid = r.bid, !.err = err, !.res = res]

\* request p ends with the response (st, msg)
Respond(p, st, msg) ==
  [req EXCEPT ![p] = Finished(req[p], "", [status |-> st, message |-> msg])]

\* request p leaves the try block with the error msg
Throw(p, msg) ==
  [req EXCEPT ![p] = Finished(req[p], msg, CatchResponse(msg))]

\* the first failing validator of `amount`, "" when the amount is valid
ValidationError(a) ==
  IF ~AtLeastOne(a) THEN ErrMin ELSE IF ~IsInteger(a) THEN ErrWhole ELSE ""

\* bid documents a request in flight may still insert
InFlight == {p \in Procs : req[p].pc \notin {"idle", "done"}}

\* createAuction (server.js 208-243) with the schema defaults of Auction.js:
\* currentBid 0, no winner, no bid references; status as the request gives it
NewAuction(status) ==
  [exists |-> TRUE, status |-> status, seller |-> Seller,
   basePrice |-> BasePrice, currentBid |-> 0,
   startTime |-> StartTime, endTime |-> EndTime,
   winner |-> None, bids |-> <<>>]

InitAt(status, t) ==
  /\ auction = NewAuction(status)
  /\ bidDocs = <<>>
  /\ notifications = <<>>
  /\ emitted = <<>>
  /\ room = {}
  /\ req = [p \in Procs |-> Idle]
  /\ resp = [op |-> "none", status |-> 0]
  /\ now = t
  /\ payments = <<>>
  /\ orderReq = [q \in Procs |-> [pc |-> "idle", user |-> None]]

\* an approved auction at its start time
Init == InitAt("active", StartTime)

\* a pending auction before its start time
InitPending == InitAt("pending", 0)

\* ----------------------------------------- placeBid (bidController.js 31-141)
Pass == [status |-> 0, message |-> ""]

\* HandlerCheck without the seller test of lines 60-66
HandlerCheckNoSellerTest(auc, user, t) ==
  IF ~auc.exists THEN [status |-> 404, message |-> ErrNotFound]
  ELSE IF auc.status # "active" THEN [status |-> 400, message |-> ErrNotActive]
  ELSE IF t > auc.endTime THEN [status |-> 400, message |-> "Auction has ended"]
  ELSE Pass

\* bidController.js 36-66: the handler's checks of the auction it loaded, in
\* the handler's order; Pass when the request goes on to Bid.create
HandlerCheck(auc, user, t) ==
  IF ~auc.exists THEN [status |-> 404, message |-> ErrNotFound]
  ELSE IF auc.status # "active" THEN [status |-> 400, message |-> ErrNotActive]
  ELSE IF t > auc.endTime THEN [status |-> 400, message |-> "Auction has ended"]
  ELSE IF auc.seller = user THEN [status |-> 400, message |-> ErrSeller]
  ELSE Pass

\* lines 33-66: load the auction, the handler's checks
PlaceBidLoad(p, user, amount) ==
  /\ req[p].pc \in {"idle", "done"}
  /\ Len(bidDocs) + Cardinality(InFlight) < MaxBids
  /\ LET r == [Idle EXCEPT !.user = user, !.amount = amount,
                           !.auc = [seller |-> auction.seller,
                                    currentBid |-> auction.currentBid]]
         res == HandlerCheck(auction, user, now)
     IN req' = IF res = Pass
                 THEN [req EXCEPT ![p] = [r EXCEPT !.pc = "create"]]
                 ELSE [req EXCEPT ![p] = Finished(r, "", res)]
  /\ UNCHANGED <<auction, bidDocs, notifications, emitted, room, resp, now,
               payments, orderReq>>

\* Bid.js 47-66: the error the pre-save hook passes to next(), "" for none
HookCheck(auc, user, amount) ==
  IF ~auc.exists THEN ErrNotFound
  ELSE IF auc.status # "active" THEN ErrNotActive
  ELSE IF auc.seller = user THEN ErrSeller
  ELSE IF BelowMinAuctionAmount(amount, auc) THEN ErrMinAuction
  ELSE ""

\* the error Bid.create throws before the hook's second query: the schema
\* validation of save() runs first, then the hook's checks
CreateError(auc, user, amount) ==
  IF ~AmountValid(amount) THEN ValidationError(amount)
  ELSE HookCheck(auc, user, amount)

\* HookLoad with the hook writing the amount to the auction before its checks
HookLoadWritesFirst(p) ==
  /\ req[p].pc = "create"
  /\ LET e == CreateError(auction, req[p].user, req[p].amount)
     IN req' = IF e # "" THEN Throw(p, e)
               ELSE [req EXCEPT ![p].pc = "highest",
                                ![p].hookCur = auction.currentBid]
  /\ auction' = [auction EXCEPT !.currentBid = Whole(req[p].amount)]
  /\ UNCHANGED <<bidDocs, notifications, emitted, room, resp, now,
               payments, orderReq>>

\* Bid.create up to the hook's checks; an error lands in the catch block
HookLoad(p) ==
  /\ req[p].pc = "create"
  /\ LET e == CreateError(auction, req[p].user, req[p].amount)
     IN req' = IF e # "" THEN Throw(p, e)
               ELSE [req EXCEPT ![p].pc = "highest",
                                ![p].hookCur = auction.currentBid]
  /\ UNCHANGED <<auction, bidDocs, notifications, emitted, room, resp, now,
               payments, orderReq>>

\* AfterHook with Bid.create not awaited: the handler goes on without the insert
AfterHookNotAwaited == "previous"

\* where a request stands once the hook has called next(): the insert of the
\* bid document is awaited before anything else (bidController.js 69)
AfterHook == "insert"

\* Bid.js 69-74: the highest bid already stored
HookHighest(p) ==
  /\ req[p].pc = "highest"
  /\ req' = IF bidDocs = <<>>
              THEN [req EXCEPT ![p].pc = AfterHook]
              ELSE [req EXCEPT ![p].pc = "save", ![p].highest = HighestAmount(bidDocs)]
  /\ UNCHANGED <<auction, bidDocs, notifications, emitted, room, resp, now,
               payments, orderReq>>

\* HookSave with the hook writing the amount of the bid being saved
HookSaveOwnAmount(p) ==
  /\ req[p].pc = "save"
  /\ IF ~auction.exists
       THEN /\ req' = Throw(p, ErrDocument)
            /\ UNCHANGED auction
       ELSE /\ req' = [req EXCEPT ![p].pc = AfterHook]
            /\ auction' = [auction EXCEPT !.currentBid = Whole(req[p].amount)]
  /\ UNCHANGED <<bidDocs, notifications, emitted, room, resp, now,
               payments, orderReq>>

\* Bid.js 75: auction.save() writes the paths the hook modified: nothing when
\* currentBid already had the value read, else a $set of currentBid alone,
\* which fails (DocumentNotFoundError) when the document is gone
HookSave(p) ==
  /\ req[p].pc = "save"
  /\ IF req[p].highest = req[p].hookCur
       THEN /\ req' = [req EXCEPT ![p].pc = AfterHook]
            /\ UNCHANGED auction
       ELSE IF ~auction.exists
         THEN /\ req' = Throw(p, ErrDocument)
              /\ UNCHANGED auction
         ELSE /\ req' = [req EXCEPT ![p].pc = AfterHook]
              /\ auction' = [auction EXCEPT !.currentBid = req[p].highest]
  /\ UNCHANGED <<bidDocs, notifications, emitted, room, resp, now,
               payments, orderReq>>

\* bidController.js 69-73: the hook has passed, the bid document is inserted
InsertBid(p) ==
  /\ req[p].pc = "insert"
  /\ bidDocs' = Append(bidDocs, [id |-> Len(bidDocs) + 1, bidder |-> req[p].user,
                                 amount |-> Whole(req[p].amount),
                                 isWinning |-> FALSE, isOutbid |-> FALSE])
  /\ req' = [req EXCEPT ![p].pc = "previous", ![p].bid = Len(bidDocs) + 1]
  /\ UNCHANGED <<auction, notifications, emitted, room, resp, now,
               payments, orderReq>>

\* the documents previousBids.find(b => b._id !== bid._id) can return after
\* sort({amount: -1}): a highest one among the others (ties in any order)
PreviousCandidates(docs, own) ==
  {i \in 1..Len(docs) :
     /\ i # own
     /\ \A j \in 1..Len(docs) : j # own => docs[j].amount <= docs[i].amount}

\* bidController.js 78-84
FindPrevious(p) ==
  /\ req[p].pc = "previous"
  /\ IF PreviousCandidates(bidDocs, req[p].bid) = {}
       THEN req' = [req EXCEPT ![p].pc = "seller", ![p].count = Len(bidDocs)]
       ELSE \E i \in PreviousCandidates(bidDocs, req[p].bid) :
              req' = [req EXCEPT ![p].pc = "outbid", ![p].count = Len(bidDocs),
                                 ![p].prev = bidDocs[i].bidder]
  /\ UNCHANGED <<auction, bidDocs, notifications, emitted, room, resp, now,
               payments, orderReq>>

\* bidController.js 86-96; ok = FALSE: the notification store rejects the write
NotifyOutbid(p, ok) ==
  /\ req[p].pc = "outbid"
  /\ IF ok
       THEN /\ notifications' = Append(notifications,
                 [user |-> req[p].prev, type |-> "outbid", bid |-> req[p].bid])
            /\ req' = [req EXCEPT ![p].pc = "seller"]
       ELSE /\ req' = Throw(p, ErrStore)
            /\ UNCHANGED notifications
  /\ UNCHANGED <<auction, bidDocs, emitted, room, resp, now,
               payments, orderReq>>

\* bidController.js 98-106
NotifySeller(p, ok) ==
  /\ req[p].pc = "seller"
  /\ IF ok
       THEN /\ notifications' = Append(notifications,
                 [user |-> req[p].auc.seller, type |-> "bid_received",
                  bid |-> req[p].bid])
            /\ req' = [req EXCEPT ![p].pc = "emit"]
       ELSE /\ req' = Throw(p, ErrStore)
            /\ UNCHANGED notifications
  /\ UNCHANGED <<auction, bidDocs, emitted, room, resp, now,
               payments, orderReq>>

\* the newBid payload of bidController.js 109-122
NewBidEvent(r, to) ==
  [type |-> "newBid", bid |-> r.bid, amount |-> Whole(r.amount),
   currentBid |-> r.auc.currentBid, bidderCount |-> r.count + 1, to |-> to]

\* bidController.js 108-127: broadcast to the room, then the 201 response
EmitNewBid(p) ==
  /\ req[p].pc = "emit"
  /\ emitted' = Append(emitted, NewBidEvent(req[p], room))
  /\ req' = Respond(p, 201, "created")
  /\ UNCHANGED <<auction, bidDocs, notifications, room, resp, now,
               payments, orderReq>>

\* the steps of placeBid for requests P by users U with amounts A; OK holds
\* the outcomes of a notification write (TRUE written, FALSE rejected)
PlaceBid(P, U, A, OK) ==
  \/ \E p \in P, u \in U, a \in A : PlaceBidLoad(p, u, a)
  \/ \E p \in P : HookLoad(p)
  \/ \E p \in P : HookHighest(p)
  \/ \E p \in P : HookSave(p)
  \/ \E p \in P : InsertBid(p)
  \/ \E p \in P : FindPrevious(p)
  \/ \E p \in P, ok \in OK : NotifyOutbid(p, ok)
  \/ \E p \in P, ok \in OK : NotifySeller(p, ok)
  \/ \E p \in P : EmitNewBid(p)

ValidAmounts == {a \in AmountInputs : AmountValid(a)}

\* the amounts the validators reject, and the least amount they accept
InvalidAmounts == AmountInputs \ ValidAmounts
LeastAmount == [n |-> 1, d |-> 1]

\* the clock advances
Tick ==
  /\ now < MaxTime
  /\ now' = now + 1
  /\ UNCHANGED <<auction, bidDocs, notifications, emitted, room, req, resp,
               payments, orderReq>>

\* ------------------------------------------------------ auction handlers
\* Each handler is one step: between its query and its write nothing it reads
\* (seller, bids) is written by any other handler.
AdminNotes == {i \in 1..Len(notifications) : notifications[i].type = "auction_approved"}

\* approveAuction (server.js 341-379)
ApproveAuction ==
  /\ Cardinality(AdminNotes) < MaxAdminOps
  /\ IF ~auction.exists
       THEN /\ resp' = [op |-> "approveAuction", status |-> 404]
            /\ UNCHANGED <<auction, notifications>>
       ELSE /\ auction' = [auction EXCEPT !.status = "active"]
            /\ notifications' = Append(notifications,
                 [user |-> auction.seller, type |-> "auction_approved", bid |-> 0])
            /\ resp' = [op |-> "approveAuction", status |-> 200]
  /\ UNCHANGED <<bidDocs, emitted, room, req, now,
               payments, orderReq>>

\* handleDispute (adminController.js 349-398); ActivityLog is not imported
\* (adminController.js 1-5), so line 380 throws after the save and the
\* notification and the catch answers 500
HandleDispute(action, winner) ==
  /\ Cardinality(AdminNotes) < MaxAdminOps
  /\ IF ~auction.exists
       THEN /\ resp' = [op |-> "handleDispute", status |-> 404]
            /\ UNCHANGED <<auction, notifications>>
       ELSE /\ auction' = IF action = "change_winner"
                            THEN [auction EXCEPT !.winner = winner]
                          ELSE IF action = "cancel_auction"
                            THEN [auction EXCEPT !.status = "cancelled"]
                          ELSE auction
            /\ notifications' = Append(notifications,
                 [user |-> auction.seller, type |-> "auction_approved", bid |-> 0])
            /\ resp' = [op |-> "handleDispute", status |-> 500]
  /\ UNCHANGED <<bidDocs, emitted, room, req, now,
               payments, orderReq>>

\* req.body of updateAuction: each path absent (<<>>) or present (<<v>>)
CurrentBidBodies ==
  {[currentBid |-> <<c>>, status |-> <<>>, winner |-> <<>>] : c \in 0..MaxAmount}

UpdateBodies ==
  CurrentBidBodies
  \cup {[currentBid |-> <<>>, status |-> <<s>>, winner |-> <<>>] : s \in Statuses}
  \cup {[currentBid |-> <<>>, status |-> <<>>, winner |-> <<w>>] : w \in Bidders}

\* Auction.findByIdAndUpdate(id, req.body): $set of the paths the body has
ApplyBody(auc, body) ==
  [auc EXCEPT
     !.currentBid = IF body.currentBid = <<>> THEN @ ELSE body.currentBid[1],
     !.status = IF body.status = <<>> THEN @ ELSE body.status[1],
     !.winner = IF body.winner = <<>> THEN @ ELSE body.winner[1]]

\* updateAuction (server.js 248-291); auction.bids is never written by placeBid
UpdateAuction(user, body) ==
  /\ IF ~auction.exists
       THEN /\ resp' = [op |-> "updateAuction", status |-> 404]
            /\ UNCHANGED auction
       ELSE IF auction.seller # user
         THEN /\ resp' = [op |-> "updateAuction", status |-> 401]
              /\ UNCHANGED auction
       ELSE IF Len(auction.bids) > 0
         THEN /\ resp' = [op |-> "updateAuction", status |-> 400]
              /\ UNCHANGED auction
       ELSE /\ auction' = ApplyBody(auction, body)
            /\ resp' = [op |-> "updateAuction", status |-> 200]
  /\ UNCHANGED <<bidDocs, notifications, emitted, room, req, now,
               payments, orderReq>>

\* deleteAuction (server.js 296-336)
DeleteAuction(user) ==
  /\ IF ~auction.exists
       THEN /\ resp' = [op |-> "deleteAuction", status |-> 404]
            /\ UNCHANGED auction
       ELSE IF auction.seller # user
         THEN /\ resp' = [op |-> "deleteAuction", status |-> 401]
              /\ UNCHANGED auction
       ELSE IF Len(auction.bids) > 0
         THEN /\ resp' = [op |-> "deleteAuction", status |-> 400]
              /\ UNCHANGED auction
       ELSE /\ auction' = [auction EXCEPT !.exists = FALSE]
            /\ resp' = [op |-> "deleteAuction", status |-> 200]
  /\ UNCHANGED <<bidDocs, notifications, emitted, room, req, now,
               payments, orderReq>>

Lifecycle ==
  \/ ApproveAuction
  \/ \E a \in {"change_winner", "cancel_auction"}, w \in Bidders : HandleDispute(a, w)
  \/ \E u \in Users, b \in UpdateBodies : UpdateAuction(u, b)
  \/ \E u \in Users : DeleteAuction(u)

\* ------------------------------------- socket handlers (server file 59-110)
Event(type, bid, amount, cur, count, to) ==
  [type |-> type, bid |-> bid, amount |-> amount, currentBid |-> cur,
   bidderCount |-> count, to |-> to]

\* joinAuction: the room size goes to the joiner and to the others
JoinAuction(k) ==
  /\ Len(emitted) < MaxEvents
  /\ room' = room \cup {k}
  /\ emitted' = emitted \o
       << Event("auctionJoined", 0, 0, 0, Cardinality(room \cup {k}), {k}),
          Event("userJoined", 0, 0, 0, Cardinality(room \cup {k}), room \ {k}) >>
  /\ UNCHANGED <<auction, bidDocs, notifications, req, resp, now,
               payments, orderReq>>

\* leaveAuction
LeaveAuction(k) ==
  /\ Len(emitted) < MaxEvents
  /\ room' = room \ {k}
  /\ emitted' = Append(emitted,
       Event("userLeft", 0, 0, 0, Cardinality(room \ {k}), room \ {k}))
  /\ UNCHANGED <<auction, bidDocs, notifications, req, resp, now,
               payments, orderReq>>

\* bidData a client may send with bidPlaced
RelayData == {[bid |-> b, amount |-> a] : b \in 1..MaxBids, a \in 1..MaxAmount}

\* bidPlaced: bidData is relayed as newBid to the room except the sender
BidPlaced(k, d) ==
  /\ Len(emitted) < MaxEvents
  /\ emitted' = Append(emitted, Event("newBid", d.bid, d.amount, d.amount, 1, room \ {k}))
  /\ UNCHANGED <<auction, bidDocs, notifications, room, req, resp, now,
               payments, orderReq>>

\* the auctionEnded events sent so far
Ended == {i \in 1..Len(emitted) : emitted[i].type = "auctionEnded"}

\* auctionEnded: what a client sends is relayed to the whole room, the sender
\* included; the winner the client names is given as the id of a bid (0: none)
AuctionEnded(k, winner) ==
  /\ Cardinality(Ended) < MaxEnded
  /\ emitted' = Append(emitted, Event("auctionEnded", winner, 0, 0, 0, room))
  /\ UNCHANGED <<auction, bidDocs, notifications, room, req, resp, now,
               payments, orderReq>>

\* disconnect: the handler only logs; socket.io itself takes a disconnected
\* socket out of every room it had joined
Disconnect(k) ==
  /\ room' = room \ {k}
  /\ UNCHANGED <<auction, bidDocs, notifications, emitted, req, resp, now,
               payments, orderReq>>

SocketMessages ==
  \/ \E k \in Sockets : JoinAuction(k)
  \/ \E k \in Sockets : LeaveAuction(k)
  \/ \E k \in Sockets, d \in RelayData : BidPlaced(k, d)

\* ------------------------------ payments (paymentController.js 21-203)
\* createOrder requests between their check and their Payment.create
OrdersInFlight == {q \in Procs : orderReq[q].pc # "idle"}

\* Payment.findOne({user, auction, status: {$in: ['pending', 'completed']}})
ExistingPayment(user) ==
  \E i \in 1..Len(payments) :
    payments[i].user = user /\ payments[i].status \in {"pending", "completed"}

\* createOrder 24-63: the status of the rejection, 0 when the request goes
\* on; auction.winner.toString() throws when no winner is set (500)
OrderCheck(auc, user) ==
  IF ~auc.exists THEN 404
  ELSE IF auc.winner = None THEN 500
  ELSE IF auc.winner # user THEN 403
  ELSE IF auc.status # "completed" THEN 400
  ELSE IF ExistingPayment(user) THEN 400
  ELSE 0

\* createOrder up to the await of the Razorpay order
CreateOrderCheck(q, user) ==
  /\ orderReq[q].pc = "idle"
  /\ Len(payments) + Cardinality(OrdersInFlight) < MaxPayments
  /\ IF OrderCheck(auction, user) = 0
       THEN /\ orderReq' = [orderReq EXCEPT ![q] = [pc |-> "create", user |-> user]]
            /\ UNCHANGED resp
       ELSE /\ resp' = [op |-> "createOrder", status |-> OrderCheck(auction, user)]
            /\ UNCHANGED orderReq
  /\ UNCHANGED <<auction, bidDocs, notifications, emitted, room, req, now, payments>>

\* createOrder 79-109: the order exists, Payment.create stores the pending
\* payment under the order's id
CreateOrderStore(q) ==
  /\ orderReq[q].pc = "create"
  /\ payments' = Append(payments, [user |-> orderReq[q].user, status |-> "pending",
                                   order |-> Len(payments) + 1])
  /\ orderReq' = [orderReq EXCEPT ![q] = [pc |-> "idle", user |-> None]]
  /\ resp' = [op |-> "createOrder", status |-> 200]
  /\ UNCHANGED <<auction, bidDocs, notifications, emitted, room, req, now>>

\* Payment.findOneAndUpdate({orderId: ...}): the schema (Payment.js 3-48) has
\* no orderId path, so no stored document has one. What the filter selects
\* depends on the build's strictQuery setting: the unknown path is kept and
\* nothing matches (0), or it is dropped and the first document matches.
OrderIdTargets == {0} \cup (IF payments = <<>> THEN {} ELSE {1})

\* the payment_successful notifications written
Verified ==
  {i \in 1..Len(notifications) : notifications[i].type = "payment_successful"}

\* verifyPayment (121-203) for a request whose signature is authentic or not
VerifyPayment(authentic) ==
  /\ Cardinality(Verified) < MaxVerified
  /\ \E t \in OrderIdTargets :
       IF authentic
         THEN IF t = 0
           THEN /\ resp' = [op |-> "verifyPayment", status |-> 404]
                /\ UNCHANGED <<payments, notifications>>
           ELSE /\ payments' = [payments EXCEPT ![t].status = "completed"]
                /\ IF auction.exists
                     THEN /\ notifications' = Append(notifications,
                               [user |-> auction.seller,
                                type |-> "payment_successful", bid |-> 0])
                          /\ resp' = [op |-> "verifyPayment", status |-> 200]
                     ELSE /\ resp' = [op |-> "verifyPayment", status |-> 500]
                          /\ UNCHANGED notifications
         ELSE /\ payments' = IF t = 0 THEN payments
                             ELSE [payments EXCEPT ![t].status = "failed"]
              /\ resp' = [op |-> "verifyPayment", status |-> 400]
              /\ UNCHANGED notifications
  /\ UNCHANGED <<auction, bidDocs, emitted, room, req, now, orderReq>>

\* ------------------------------------------------------ specifications
\* concurrent bidders with valid amounts on an active auction
Next == PlaceBid(Procs, Bidders, ValidAmounts, {TRUE})

Spec == Init /\ [][Next]_vars

\* one request at a time, any user and amount, the auction handlers, the clock
NextLifecycle ==
  \/ PlaceBid({1}, {Seller, "u1"}, InvalidAmounts \cup {LeastAmount}, {TRUE})
  \/ ApproveAuction
  \/ HandleDispute("cancel_auction", None)
  \/ \E b \in CurrentBidBodies : UpdateAuction(Seller, b)
  \/ Tick

SpecLifecycle == InitPending /\ [][NextLifecycle]_vars

\* the auction handlers alone, with every input
NextAdmin == Lifecycle \/ Tick

SpecAdmin == InitPending /\ [][NextAdmin]_vars

\* the bid handler and the socket handlers
NextRealtime ==
  \/ PlaceBid({1}, Bidders, {LeastAmount}, {TRUE})
  \/ SocketMessages

SpecRealtime == Init /\ [][NextRealtime]_vars

\* concurrent bidders while sockets join the auction's room
NextOrder ==
  \/ PlaceBid(Procs, Bidders, {LeastAmount}, {TRUE})
  \/ \E k \in Sockets : JoinAuction(k)

SpecOrder == Init /\ [][NextOrder]_vars

\* one request at a time whose notification writes may fail, with subscribers
NextNotify ==
  \/ PlaceBid({1}, Bidders, {LeastAmount}, {TRUE, FALSE})
  \/ \E k \in Sockets : JoinAuction(k)

SpecNotify == Init /\ [][NextNotify]_vars

\* the auction handlers under a clock that keeps advancing
SpecClock == InitPending /\ [][NextAdmin]_vars /\ WF_vars(Tick)

\* the seller's status updates and the sockets' join and auctionEnded messages
NextEnded ==
  \/ \E b \in UpdateBodies : UpdateAuction(Seller, b)
  \/ \E k \in Sockets : JoinAuction(k)
  \/ \E k \in Sockets, w \in 0..MaxBids : AuctionEnded(k, w)
  \/ Tick

SpecEnded == Init /\ [][NextEnded]_vars

\* a bidder's requests while the seller and the bidder edit or delete the auction
NextSeller ==
  \/ PlaceBid({1}, {"u1"}, {LeastAmount}, {TRUE})
  \/ \E u \in {Seller, "u1"}, b \in UpdateBodies : UpdateAuction(u, b)
  \/ \E u \in {Seller, "u1"} : DeleteAuction(u)

SpecSeller == Init /\ [][NextSeller]_vars

\* bid requests one after the other, by any bidder with any valid amount
NextSequential ==
  \/ PlaceBid({1}, Bidders, ValidAmounts, {TRUE})
  \/ Tick

SpecSequential == Init /\ [][NextSequential]_vars

\* the seller's edits, concurrent createOrder requests and verifyPayment
NextPayment ==
  \/ \E b \in UpdateBodies : UpdateAuction(Seller, b)
  \/ \E q \in Procs, u \in Bidders : CreateOrderCheck(q, u)
  \/ \E q \in Procs : CreateOrderStore(q)
  \/ \E a \in BOOLEAN : VerifyPayment(a)

SpecPayment == Init /\ [][NextPayment]_vars

\* sockets that come and go while a bidder bids
NextPresence ==
  \/ PlaceBid({1}, {"u1"}, {LeastAmount}, {TRUE})
  \/ \E k \in Sockets : JoinAuction(k)
  \/ \E k \in Sockets : LeaveAuction(k)
  \/ \E k \in Sockets : Disconnect(k)

SpecPresence == Init /\ [][NextPresence]_vars

\* ------------------------------------------------------ claims
\* requests whose bid document is stored and whose handler has not returned
Accepted(p) == req[p].pc \in {"previous", "outbid", "seller", "emit"}

\* C1: for any auction the amounts of the bids placeBid accepts are strictly
\* increasing in the order of acceptance; a bid at or below the highest
\* accepted amount is never persisted.
C1_StrictlyIncreasing ==
  \A i, j \in 1..Len(bidDocs) : i < j => bidDocs[i].amount < bidDocs[j].amount

\* C2: two concurrent placeBid requests never both succeed against the same
\* baseline (the highest bid each of them read): of two requests in flight at
\* once at most one per baseline is accepted, the other fails.
C2_OneAcceptedPerBaseline ==
  \A p, q \in Procs :
    (p # q /\ Accepted(p) /\ Accepted(q)) => req[p].highest # req[q].highest

\* C3: immediately after placeBid accepts a bid (its document is stored), the
\* auction's stored currentBid equals the accepted amount.
C3_CurrentBidIsAcceptedAmount ==
  [][\A p \in Procs :
       (req[p].pc = "insert" /\ Accepted(p)')
         => auction'.currentBid = Whole(req[p].amount)]_vars

\* C4: the stored currentBid of an auction never decreases, in any step of
\* any handler and under every interleaving.
C4_CurrentBidNonDecreasing ==
  [][auction'.currentBid >= auction.currentBid]_vars

\* C5 as claimed: every placeBid request of the auction's seller ends with the
\* self-bid error and creates no bid record.
C5_SellerGetsSelfBidError ==
  \A p \in Procs :
    (req[p].pc = "done" /\ req[p].user = Seller)
      => (req[p].res.message = ErrSeller /\ req[p].bid = 0)

\* the responses of the handler's own checks
HandlerRejections ==
  {[status |-> 404, message |-> ErrNotFound],
   [status |-> 400, message |-> ErrNotActive],
   [status |-> 400, message |-> "Auction has ended"],
   [status |-> 400, message |-> ErrSeller]}

\* C5 amended: a placeBid request of the auction's seller is always rejected
\* by the handler itself with a 4xx response, before Bid.create, and no bid
\* record of the seller exists; the response is the self-bid error exactly
\* when the auction loaded exists, is active and now <= endTime.
C5_SellerRejectedByHandler ==
  /\ [](\A p \in Procs :
          req[p].user = Seller
            => (req[p].pc = "done" /\ req[p].bid = 0
                /\ req[p].res \in HandlerRejections))
  /\ [](\A i \in 1..Len(bidDocs) : bidDocs[i].bidder # Seller)
  /\ [][\A p \in Procs :
          (req'[p] # req[p] /\ req'[p].user = Seller)
            => (req'[p].res.message = ErrSeller
                  <=> (auction.exists /\ auction.status = "active"
                       /\ now <= auction.endTime))]_vars

\* C5 witness: the seller bid on the active auction and got the self-bid error
C5_Witness ==
  \E p \in Procs :
    /\ req[p].pc = "done" /\ req[p].user = Seller
    /\ req[p].res = [status |-> 400, message |-> ErrSeller]
    /\ auction.status = "active"

\* C6: a bid document is stored only while the auction is active and
\* startTime <= now < endTime.
C6_AcceptedOnlyWhileActive ==
  [][bidDocs' # bidDocs
       => (auction.exists /\ auction.status = "active"
           /\ auction.startTime <= now /\ now < auction.endTime)]_vars

\* C7: the first bid accepted on an auction strictly exceeds its basePrice.
C7_FirstBidExceedsBasePrice ==
  Len(bidDocs) >= 1 => bidDocs[1].amount > auction.basePrice

\* the errors of Bid.create that are validation rejections
ValidationRejections == {ErrMin, ErrWhole, ErrNotActive, ErrSeller, ErrMinAuction}

\* C8: no validation rejection of placeBid (invalid amount, auction not
\* active, self bid, bid too low) is answered as a generic server error.
C8_ValidationIsNotServerError ==
  \A p \in Procs :
    (req[p].pc = "done" /\ req[p].err \in ValidationRejections)
      => (req[p].res.status # 500 /\ req[p].res.message # "Server error")

\* C9: when placeBid writes an outbid / bid_received notification or emits the
\* newBid event of a bid, that bid's document is already stored, with the
\* amount and the bidder the event reports.
C9_CommitBeforeEffects ==
  [][/\ notifications' # notifications
          => LET n == notifications'[Len(notifications')]
             IN n.type \in {"outbid", "bid_received"} => n.bid \in 1..Len(bidDocs)
     /\ \A p \in Procs :
          (req[p].pc = "emit" /\ req'[p].pc = "done")
            => LET e == emitted'[Len(emitted')]
               IN /\ e.type = "newBid"
                  /\ e.bid \in 1..Len(bidDocs)
                  /\ bidDocs[e.bid].amount = e.amount
                  /\ bidDocs[e.bid].bidder = req[p].user]_vars

\* C9 witness: placeBid has answered 201 for a stored bid whose newBid event
\* reached a subscriber and whose seller notification is written
C9_Witness ==
  \E p \in Procs, i \in 1..Len(emitted), j \in 1..Len(notifications) :
    /\ req[p].pc = "done" /\ req[p].res.status = 201
    /\ emitted[i].type = "newBid" /\ emitted[i].bid = req[p].bid
    /\ emitted[i].to # {}
    /\ notifications[j].type = "bid_received" /\ notifications[j].bid = req[p].bid
    /\ req[p].bid \in 1..Len(bidDocs)

\* C10: every newBid event delivered to a subscriber is the event of a stored
\* bid of the auction (same id and amount), and no bid has two newBid events.
C10_NewBidOncePerAcceptedBid ==
  \A i \in 1..Len(emitted) :
    (emitted[i].type = "newBid" /\ emitted[i].to # {})
      => /\ emitted[i].bid \in 1..Len(bidDocs)
         /\ bidDocs[emitted[i].bid].amount = emitted[i].amount
         /\ \A j \in 1..Len(emitted) :
              (j # i /\ emitted[j].type = "newBid" /\ emitted[j].to # {})
                => emitted[j].bid # emitted[i].bid

\* the newBid events of the bid handler that reached at least one subscriber
Delivered == {i \in 1..Len(emitted) : emitted[i].type = "newBid" /\ emitted[i].to # {}}

\* the seller notifications, one per bid whose handler got that far
Received == {i \in 1..Len(notifications) : notifications[i].type = "bid_received"}

\* C11: the newBid events reach the subscribers in the order in which their
\* bids were committed (bid ids count the commits), and the bid_received
\* notifications are triggered in that order too, under every interleaving
\* of concurrent placeBid requests.
C11_BroadcastInCommitOrder ==
  /\ \A i, j \in Delivered : i < j => emitted[i].bid < emitted[j].bid
  /\ \A i, j \in Received : i < j => notifications[i].bid < notifications[j].bid

\* C12: the newBid event placeBid emits for an accepted bid carries the
\* snapshot after the acceptance: currentBid is the accepted amount and
\* bidderCount is the number of bid documents stored, the accepted one
\* included.
C12_EventCarriesNewSnapshot ==
  [][\A p \in Procs :
       (req[p].pc = "emit" /\ req'[p].pc = "done")
         => LET e == emitted'[Len(emitted')]
            IN /\ e.currentBid = bidDocs[req[p].bid].amount
               /\ e.bidderCount = Len(bidDocs)]_vars

\* the bid documents flagged as the winning one
Winning == {i \in 1..Len(bidDocs) : bidDocs[i].isWinning}

\* C13: the derived flags are recomputed with each accepted bid: at most one
\* bid document has isWinning = true in any state, and once the handlers of
\* the accepted bids have returned, a bid of the highest amount has
\* isWinning = true and, with two bids or more, a bid it outbid has
\* isOutbid = true.
C13_FlagsFollowAcceptance ==
  /\ Cardinality(Winning) <= 1
  /\ (InFlight = {} /\ bidDocs # <<>>)
       => /\ \E i \in Winning : bidDocs[i].amount = HighestAmount(bidDocs)
          /\ Len(bidDocs) >= 2
               => \E j \in 1..Len(bidDocs) : j \notin Winning /\ bidDocs[j].isOutbid

\* the notifications of a type written for bid b
NotesOf(type, b) ==
  {i \in 1..Len(notifications) :
     notifications[i].type = type /\ notifications[i].bid = b}

\* the bidders of the highest bid among those committed before bid b
TopBefore(b) ==
  {bidDocs[i].bidder : i \in {k \in 1..(b - 1) :
     \A j \in 1..(b - 1) : bidDocs[j].amount <= bidDocs[k].amount}}

\* C14: each accepted bid gets at most one outbid notification, addressed to
\* the bidder of the top bid just before the acceptance (none for a first
\* bid), and at most one bid_received notification, addressed to the
\* seller; when placeBid has answered 201 both counts are exact.
C14_OneOutbidOneReceived ==
  \A b \in 1..Len(bidDocs) :
    /\ Cardinality(NotesOf("outbid", b)) <= 1
    /\ Cardinality(NotesOf("bid_received", b)) <= 1
    /\ \A i \in NotesOf("outbid", b) : notifications[i].user \in TopBefore(b)
    /\ \A i \in NotesOf("bid_received", b) : notifications[i].user = Seller
    /\ (\E p \in Procs : req[p].pc = "done" /\ req[p].bid = b
                         /\ req[p].res.status = 201)
         => /\ Cardinality(NotesOf("bid_received", b)) = 1
            /\ Cardinality(NotesOf("outbid", b)) = IF b > 1 THEN 1 ELSE 0

\* C15: a failed notification write never fails the bid: a placeBid request
\* that has returned with its bid document stored has answered 201 and the
\* newBid event of that bid has been emitted.
C15_NotificationFailureIsHarmless ==
  \A p \in Procs :
    (req[p].pc = "done" /\ req[p].bid \in 1..Len(bidDocs))
      => /\ req[p].res.status = 201
         /\ \E i \in 1..Len(emitted) :
              emitted[i].type = "newBid" /\ emitted[i].bid = req[p].bid

\* C16: completed and cancelled are terminal: no step of approveAuction,
\* updateAuction, handleDispute or placeBid changes the status of an auction
\* that is completed or cancelled.
C16_TerminalStatusStays ==
  [][auction.status \in {"completed", "cancelled"}
       => auction'.status = auction.status]_vars

\* C17: in every state the auction has a winner exactly when its status is
\* completed and at least one bid document exists for it.
C17_WinnerOnlyWhenCompletedWithBids ==
  (auction.winner # None) <=> (auction.status = "completed" /\ bidDocs # <<>>)

\* the winner finalize is to assign: the bidder of the highest bid, the
\* earliest one among equal amounts, none without bids
FinalWinner(docs) ==
  IF docs = <<>> THEN None
  ELSE docs[CHOOSE i \in 1..Len(docs) :
              /\ \A j \in 1..Len(docs) : docs[j].amount <= docs[i].amount
              /\ \A j \in 1..(i - 1) : docs[j].amount < docs[i].amount].bidder

\* C18: an active auction whose endTime has passed is finalized: it becomes
\* completed with the bidder of its highest bid as winner (none without
\* bids).
C18_EndedAuctionIsFinalized ==
  (auction.exists /\ auction.status = "active" /\ now > auction.endTime)
    ~> (auction.status = "completed" /\ auction.winner = FinalWinner(bidDocs))

\* C19: the subscribers of the auction receive at most one auctionEnded
\* event, however often the end of the auction is signalled.
C19_OneAuctionEnded ==
  Cardinality({i \in Ended : emitted[i].to # {}}) <= 1

\* C20: an active auction for which a bid is recorded is not cancelled by
\* the default cancel path: no step takes it from active to cancelled.
C20_NoCancelWithBids ==
  [][(auction.status = "active" /\ bidDocs # <<>>)
       => auction'.status # "cancelled"]_vars

\* C21: once a bid document exists for the auction, no updateAuction or
\* deleteAuction request (the steps that leave the bid requests alone)
\* changes or removes the auction document, and the auction document exists
\* in every state in which a bid document references it.
C21_BidsProtectAuction ==
  /\ [](bidDocs # <<>> => auction.exists)
  /\ [][(bidDocs # <<>> /\ req' = req) => auction' = auction]_vars

\* C22: where no bid is submitted the currentBid of the auction never
\* changes, and a step that answers an updateAuction request leaves status
\* and winner as they were, whatever the request body holds.
C22_UpdateLeavesDerivedFields ==
  [][/\ auction'.currentBid = auction.currentBid
     /\ resp'.op = "updateAuction"
          => /\ auction'.status = auction.status
             /\ auction'.winner = auction.winner]_vars

\* the events a step adds to the log
Fresh == {i \in 1..Len(emitted') : i > Len(emitted)}

\* C23: a socket that joins the room of an auction with accepted bids is
\* sent, in that step, an event of its own that carries the amount of the
\* latest accepted bid as the current bid.
C23_JoinSendsSnapshot ==
  [][\A k \in Sockets :
       (k \notin room /\ k \in room' /\ bidDocs # <<>>)
         => \E i \in Fresh :
              /\ emitted'[i].to = {k}
              /\ emitted'[i].currentBid = bidDocs[Len(bidDocs)].amount]_vars

\* C24: every newBid event is sent to every socket that is in the auction's
\* room when it is sent, the socket of the bid's submitter included.
C24_NewBidReachesWholeRoom ==
  [][\A i \in Fresh :
       emitted'[i].type = "newBid" => emitted'[i].to = room]_vars

\* C25: whenever a socket goes out of the auction's room, by leaveAuction or
\* by disconnecting, the sockets that remain are sent userLeft with the new
\* size of the room in that step, and every later event leaves it out.
C25_DisconnectIsLeave ==
  [][/\ \A k \in Sockets :
          (k \in room /\ k \notin room')
            => \E i \in Fresh :
                 /\ emitted'[i].type = "userLeft"
                 /\ emitted'[i].to = room'
                 /\ emitted'[i].bidderCount = Cardinality(room')
     /\ \A i \in Fresh : emitted'[i].to \subseteq room']_vars

\* the collections and the event log have changed in a step
Effect ==
  \/ auction' # auction
  \/ bidDocs' # bidDocs
  \/ notifications' # notifications
  \/ emitted' # emitted

\* C26: a placeBid request rejected by a check of the handler, of the
\* schema validators or of the pre-save hook has no effect: the step that
\* rejects it leaves auction, bids, notifications and events as they are and
\* the request has created no bid document; the only steps of a request that
\* do have an effect belong to a request past its last check, which goes on
\* to store its bid.
C26_RejectionHasNoEffect ==
  [][\A p \in Procs :
       /\ (req'[p] # req[p] /\ req'[p].pc = "done"
           /\ req'[p].res.status # 201 /\ req'[p].err # ErrStore)
            => (~Effect /\ req'[p].bid = 0)
       /\ (req'[p] # req[p] /\ Effect)
            => (req'[p].pc = "insert" \/ Accepted(p)' \/ req'[p].res.status = 201)
       /\ (req'[p] # req[p] /\ req[p].pc = "insert") => Accepted(p)']_vars

\* C26 witness: the hook has rejected a bid because the auction was cancelled
\* after the handler's own checks had passed
C26_Witness ==
  \E p \in Procs :
    /\ req[p].pc = "done" /\ req[p].err = ErrNotActive
    /\ req[p].res.status = 500 /\ req[p].bid = 0
    /\ auction.status = "cancelled" /\ bidDocs = <<>>

\* the bid documents stored before the most recent one
Earlier == SubSeq(bidDocs, 1, Len(bidDocs) - 1)

C28_DisputeErrorMeansUnchanged ==
  [][(resp'.op = "handleDispute" /\ resp'.status # 200)
       => /\ auction'.winner = auction.winner
          /\ auction'.status = auction.status]_vars

\* the payments of a user that are pending or completed
OpenPayments(u) ==
  {i \in 1..Len(payments) :
     payments[i].user = u /\ payments[i].status \in {"pending", "completed"}}

\* C29: no user has two payment documents for the auction that are pending
\* or completed, under any interleaving of createOrder requests.
C29_OneOpenPaymentPerUser ==
  \A u \in Users : Cardinality(OpenPayments(u)) <= 1

\* C30: a payment document whose status is completed keeps that status in
\* every step, a verifyPayment request with an invalid signature included.
C30_CompletedStaysCompleted ==
  [][\A i \in 1..Len(payments) :
       payments[i].status = "completed" => payments'[i].status = "completed"]_vars

====
